---- MODULE Spec2Model ----
(***************************************************************************)
(* Model of the SVG -> TGS conversion bot (kevyabdi/Svgtotgs).             *)
(*                                                                         *)
(* Part I   (Spec):     the per-user batching of individually sent SVG     *)
(*                      files: handle_multiple_svg_files, the timer task   *)
(*                      _process_user_batch_after_delay and the capture    *)
(*                      done at the head of process_user_batch.            *)
(*                                                                         *)
(* Part II  (ConvSpec): what one document sets off once it is converted:   *)
(*                      process_user_batch on a fired batch, or            *)
(*                      handle_batch_conversion on a ZIP archive, with     *)
(*                      the temporary files each of them creates.          *)
(*                                                                         *)
(* Part III (ArchiveSpec): create_result_archive of BatchConverter, on     *)
(*                      argument lists drawn from bounded sets.            *)
(*                                                                         *)
(* StopSpec is Part I in a process whose polling loop can end at any       *)
(* moment (start).                                                         *)
(*                                                                         *)
(* UpdateSpec is Part I behind handle_update: the ban check on the table   *)
(* users, /ban and /unban, and documents of any size.  AdminSpec is        *)
(* handle_command alone, on every sequence of commands.  CallSpec is one   *)
(* call of convert_batch of BatchConverter.                                *)
(*                                                                         *)
(* One asyncio event loop runs everything, so an action is the code that   *)
(* runs between two suspension points (await) of one coroutine.  The       *)
(* polling loop awaits handle_update for one update at a time, so at most  *)
(* one handler is in flight; timer tasks created with create_task run      *)
(* concurrently with it and with each other.                               *)
(***************************************************************************)
EXTENDS Integers, Sequences, FiniteSets, TLC

\* ------------------------------------------------------------------ sizes

\* The submitters (Telegram user ids).
Users == {1, 2}

\* len(self.user_files[user_id]) >= 15
Capacity == 15

\* await asyncio.sleep(0.1), counted in ticks of 50 ms
Quiescence == 2

\* Bound on the number of document updates the polling loop hands over.
MaxArrivals == 3

\* The run starts with user 1 idle, or right after user 1 sent a burst of
\* Capacity - 1 documents within one tick (buffered, the timer just reset).
StartFill == {0, Capacity - 1}

\* Bound on the size of the fired batch whose processing is followed item
\* by item.
MaxBatch == 2

\* Bound on the number of SVG members of an archive whose conversion is
\* followed member by member.
MaxMembers == 2

\* self.max_files = 15
max_files == 15

\* Bound on the number of paths of a call of convert_batch that is followed
\* task by task.
MaxPaths == 3

\* Bound on the number of successful conversions handed to
\* create_result_archive.
MaxPacked == 2

\* Bound on the number of failed conversions handed to it.
MaxFailed == 2

\* The people who write to the bot: the submitters, and one more who sends
\* commands only.
People == Users \cup {3}

\* self.config.owner_id
owner_id == 1

\* self.max_file_size = 10 * 1024 * 1024
max_file_size == 10 * 1024 * 1024

\* Bound on the number of SVG documents that pass handle_update while the
\* table users is followed.
MaxUpdates == 1

\* user_timers / user_waiting_message: the key is absent
NoTimer == 0
NoEntry == 0 - 1
\* send_message returned None (a non-200 answer)
NoneMsg == 0

VARIABLES
  user_files,            \* user -> buffered items (an absent key reads as [])
  user_timers,           \* user -> handle of the registered timer task, or NoTimer
  user_waiting_message,  \* user -> message to edit, NoneMsg, or NoEntry
  sleeping,              \* timer tasks suspended in asyncio.sleep(0.1)
  procs,                 \* timer tasks that are inside process_user_batch
  handler,               \* the update handler in flight, if any
  arrivals,              \* user -> number of SVG documents handed over so far
  age,                   \* user -> ticks since the last arrival (saturating)
  chainStart,            \* user -> first arrival of the current run of short gaps
  chainRejected,         \* user -> some arrival of that run was rejected
  lastBatch,             \* user -> the batch captured by the latest fire
  settled,               \* user -> items whose batch has finished processing
  rejected,              \* user -> arrivals that were turned away
  handed,                \* number of updates handed over in this run
  cancelled              \* user -> timer tasks that task.cancel() was called on

schedVars == <<user_files, user_timers, user_waiting_message, sleeping, procs,
               handler, arrivals, age, chainStart, chainRejected, lastBatch,
               settled, rejected, handed, cancelled>>

VARIABLES
  fired,      \* user -> the batches process_user_batch captured, in order
  posted,     \* user -> the "Please wait" message posted for the open window
  error_log   \* what logger.error recorded for the update handlers

noteVars == <<fired, posted, error_log>>

VARIABLES
  users       \* the table users: person -> the row (is_banned, is_admin), if any

dbVars == <<users>>

VARIABLES
  job,                     \* "none", "batch" (process_user_batch) or "zip"
  pc,                      \* the await the coroutine is suspended at
  files_to_process,        \* the captured batch: items 1..Len
  waiting_msg,             \* the captured waiting message, or NoneMsg
  idx,                     \* the item the for loop is at (i + 1)
  successful_conversions,  \* items appended at lines 643-647, in order
  failed_conversions,      \* [item, error] appended at 630, 659, 681
  send_idx,                \* position of the delivery loop
  delivered,               \* [item, answer] of each send_document that returned
  notices,                 \* the texts process_user_batch put before the user
  conversions,             \* rows written by db.add_conversion
  disk,                    \* temporary files that exist
  created,                 \* temporary files ever created for this job
  unlink_raised,           \* files whose os.unlink raised
  fate,                    \* item -> how far its own pipeline got
  attempted,               \* items whose download_file was awaited
  unlink_log,              \* the files os.unlink removed, in order
  members,                 \* number of SVG members of the uploaded archive
  progress_msg,            \* send_message gave a message to edit
  file_paths,              \* extract_files_from_zip: the extracted files
  original_names,          \* extract_files_from_zip: their base names
  extraction_errors,       \* extract_files_from_zip: its errors
  tasks,                   \* position -> state of _convert_single_file
  finished,                \* the positions of the tasks, as they completed
  verdict,                 \* <<position, message>> of each validate_svg_file
  invoked,                 \* positions whose converter.convert was awaited
  results                  \* what convert_batch returned

convVars == <<job, pc, files_to_process, waiting_msg, idx,
              successful_conversions, failed_conversions, send_idx, delivered,
              notices, conversions, disk, created, unlink_raised, fate, attempted,
              unlink_log, members, progress_msg, file_paths, original_names,
              extraction_errors, tasks, finished, verdict, invoked, results>>

histVars == <<verdict, invoked>>

zipVars == <<members, progress_msg, file_paths, original_names,
             extraction_errors, tasks, finished, results>>

batchVars == <<files_to_process, waiting_msg, idx, successful_conversions,
               failed_conversions, conversions, fate, attempted, notices>>

VARIABLES
  arch_pc,        \* where create_result_archive is
  arch_successful,  \* its argument successful_conversions
  arch_failed,    \* its argument failed_conversions
  arch_present,   \* the tgs_path files for which os.path.exists is true
  arch_k,         \* position of the loop over successful_conversions
  zip_entries,    \* the entries written into the archive, in order
  zip_on_disk,    \* the file at zip_path exists
  zip_unlink_raised  \* os.unlink(zip_path) raised in the handler

archVars == <<arch_pc, arch_successful, arch_failed, arch_present, arch_k,
              zip_entries, zip_on_disk, zip_unlink_raised>>

vars == <<schedVars, noteVars, dbVars, convVars, archVars>>

\* ---------------------------------------------------------------- helpers

Range(s) == {s[i] : i \in 1..Len(s)}

Min(a, b) == IF a < b THEN a ELSE b

Idle == [pc |-> "idle", u |-> 0, n |-> 0]

\* The polling loop has ended (start, lines 76-78).
Stopped == [pc |-> "stopped", u |-> 0, n |-> 0]

\* chat_id = message['chat']['id'] of the n-th document of user u: user 1
\* writes to the bot in turn from a group (chat 2) and from the private chat
\* (chat 1), user 2 from one chat.
ChatOf(u, n) == IF u = 1 THEN 1 + (n % 2) ELSE 3

\* ------------------------------------------------- handle_multiple_svg_files

BufferFullOffByOne(u) == Len(user_files[u]) > Capacity

BufferNeverFull(u) == FALSE

\* if len(self.user_files[user_id]) >= 15: reject
BufferFull(u) == Len(user_files[u]) >= Capacity

\* task.cancel(): the sleeping task gets CancelledError and ends; a task that
\* is already inside process_user_batch would be torn down at its await.
CancelNothing(u) == sleeping

CancelSleeping(u) ==
  IF user_timers[u] = NoTimer
  THEN sleeping
  ELSE {t \in sleeping : ~(t.u = u /\ t.id = user_timers[u])}

CancelProcs(u) ==
  IF user_timers[u] = NoTimer
  THEN procs
  ELSE {IF p.u = u /\ p.id = user_timers[u]
        THEN [p EXCEPT !.pc = "cancelled"] ELSE p : p \in procs}

\* Lines 572-579: cancel the registered timer, create and register a new one.
ResetTimer(u, n) ==
  /\ sleeping' = CancelSleeping(u)
                 \cup {[u |-> u, id |-> n, rem |-> Quiescence,
                        chat_id |-> ChatOf(u, n)]}
  /\ procs' = CancelProcs(u)
  /\ user_timers' = [user_timers EXCEPT ![u] = n]
  /\ cancelled' = [cancelled EXCEPT
                     ![u] = IF user_timers[u] = NoTimer THEN @
                            ELSE @ \cup {user_timers[u]}]

\* The history of the run of arrivals that are less than Quiescence apart.
NoteArrival(u, n, turnedAway) ==
  LET fresh == arrivals[u] = 0 \/ age[u] >= Quiescence IN
  /\ arrivals' = [arrivals EXCEPT ![u] = n]
  /\ handed' = handed + 1
  /\ rejected' = [rejected EXCEPT ![u] = IF turnedAway THEN @ \cup {n} ELSE @]
  /\ age' = [age EXCEPT ![u] = 0]
  /\ chainStart' = [chainStart EXCEPT ![u] = IF fresh THEN n ELSE @]
  /\ chainRejected' = [chainRejected EXCEPT
                         ![u] = IF fresh THEN turnedAway ELSE @ \/ turnedAway]

\* An SVG document of user u reaches handle_multiple_svg_files (lines 538-579).
\* It runs to its first await, or to its end when it awaits nothing.
Arrive(u) ==
  /\ handler.pc = "idle"
  /\ handed < MaxArrivals
  /\ LET n == arrivals[u] + 1 IN
     IF BufferFull(u)
     THEN /\ NoteArrival(u, n, TRUE)
          /\ handler' = [pc |-> "reject_notice", u |-> u, n |-> n]
          /\ UNCHANGED <<user_files, user_timers, user_waiting_message,
                         sleeping, procs, lastBatch, settled, cancelled>>
     ELSE /\ NoteArrival(u, n, FALSE)
          /\ user_files' = [user_files EXCEPT ![u] = Append(@, n)]
          /\ IF Len(user_files[u]) = 0
             THEN /\ handler' = [pc |-> "wait_notice", u |-> u, n |-> n]
                  /\ UNCHANGED <<user_timers, sleeping, procs, cancelled>>
             ELSE /\ handler' = Idle
                  /\ ResetTimer(u, n)
          /\ UNCHANGED <<user_waiting_message, lastBatch, settled>>

\* send_message of the "Please wait" notice returns (lines 567-579); msg is
\* the message (named by the arrival it answers) or None.
NoticeReturn ==
  /\ handler.pc = "wait_notice"
  /\ \E msg \in {handler.n, NoneMsg} :
       /\ user_waiting_message' =
            [user_waiting_message EXCEPT ![handler.u] = msg]
       /\ posted' = [posted EXCEPT ![handler.u] = msg]
  /\ UNCHANGED <<fired, error_log>>
  /\ ResetTimer(handler.u, handler.n)
  /\ handler' = Idle
  /\ UNCHANGED <<user_files, arrivals, age, chainStart, chainRejected,
                 lastBatch, settled, rejected, handed>>

\* logger.error(f"Error handling update: {e}")  (lines 152-153)
HandlingError(u, n) == [text |-> "Error handling update", u |-> u, n |-> n]

\* requests.post raises inside send_message: the exception leaves
\* handle_multiple_svg_files and is logged by handle_update (lines 152-153).
NoticeRaise ==
  /\ handler.pc = "wait_notice"
  /\ handler' = Idle
  /\ error_log' = error_log \cup {HandlingError(handler.u, handler.n)}
  /\ UNCHANGED <<fired, posted>>
  /\ UNCHANGED <<user_files, user_timers, user_waiting_message, sleeping,
                 procs, arrivals, age, chainStart, chainRejected, lastBatch,
                 settled, rejected, handed, cancelled>>

\* The "Maximum 15 files" notice was sent, or failed to be: return (550-554).
RejectReturn ==
  /\ handler.pc = "reject_notice"
  /\ handler' = Idle
  /\ \E r \in {"returned", "raised"} :
       error_log' = IF r = "raised"
                    THEN error_log \cup {HandlingError(handler.u, handler.n)}
                    ELSE error_log
  /\ UNCHANGED <<fired, posted>>
  /\ UNCHANGED <<user_files, user_timers, user_waiting_message, sleeping,
                 procs, arrivals, age, chainStart, chainRejected, lastBatch,
                 settled, rejected, handed, cancelled>>

\* ------------------------------------------- _process_user_batch_after_delay

TimerDueAtOnce(t) == TRUE

\* asyncio.sleep(0.1) has elapsed
TimerDue(t) == t.rem = 0

KeepTimer(u) == user_timers

\* if user_id in self.user_timers: del self.user_timers[user_id]
UnregisterTimer(u) == [user_timers EXCEPT ![u] = NoTimer]

KeepBuffer(u) == user_files

ClearAllBuffers(u) == [v \in Users |-> <<>>]

\* self.user_files[user_id] = []  (a new list: the captured one is not touched)
RebindBuffer(u) == [user_files EXCEPT ![u] = <<>>]

\* The timer task wakes (line 586) and, with a non-empty buffer, runs
\* process_user_batch up to its first await (lines 598-623).
TimerFire(t) ==
  /\ t \in sleeping
  /\ TimerDue(t)
  /\ sleeping' = sleeping \ {t}
  /\ IF user_files[t.u] # <<>>
     THEN /\ procs' = procs \cup
                {[u |-> t.u, id |-> t.id, chat_id |-> t.chat_id,
                  batch |-> user_files[t.u],
                  waiting_msg |-> user_waiting_message[t.u],
                  posted |-> posted[t.u],
                  pc |-> "items"]}
          /\ fired' = [fired EXCEPT ![t.u] = Append(@, user_files[t.u])]
          /\ posted' = [posted EXCEPT ![t.u] = NoneMsg]
          /\ user_files' = RebindBuffer(t.u)
          /\ user_timers' = UnregisterTimer(t.u)
          /\ lastBatch' = [lastBatch EXCEPT ![t.u] = user_files[t.u]]
     ELSE UNCHANGED <<procs, user_files, user_timers, lastBatch, fired,
                      posted>>
  /\ UNCHANGED <<user_waiting_message, handler, arrivals, age, chainStart,
                 chainRejected, settled, rejected, handed, cancelled,
                 error_log>>

\* process_user_batch runs from its first await to its end (lines 618-716;
\* Part II follows it step by step).  With a successful conversion (ok) the
\* entry of user_waiting_message is dropped; the task ends.
ProcFinish(p) ==
  /\ p \in procs
  /\ p.pc = "items"
  /\ procs' = procs \ {p}
  /\ \E ok \in BOOLEAN :
       user_waiting_message' =
         IF ok THEN [user_waiting_message EXCEPT ![p.u] = NoEntry]
         ELSE user_waiting_message
  /\ settled' = [settled EXCEPT ![p.u] = @ \cup Range(p.batch)]
  /\ UNCHANGED <<user_files, user_timers, sleeping, handler, arrivals, age,
                 chainStart, chainRejected, lastBatch, rejected, handed, cancelled>>

\* 50 ms pass.
Tick ==
  /\ age' = [u \in Users |-> Min(age[u] + 1, Quiescence)]
  /\ sleeping' = {[t EXCEPT !.rem = IF @ > 0 THEN @ - 1 ELSE 0] : t \in sleeping}
  /\ UNCHANGED <<user_files, user_timers, user_waiting_message, procs,
                 handler, arrivals, chainStart, chainRejected, lastBatch,
                 settled, rejected, handed, cancelled>>

\* ----------------------------------------------------------------- start

\* except asyncio.CancelledError: pass  (lines 589-591): what a cancelled
\* timer task logs.
CancelledLogs(t) == {}

\* The polling loop ends (start, lines 76-78) and main returns (lines
\* 935-938): asyncio.run cancels the tasks that are left.  A timer task gets
\* the CancelledError in its sleep, or at an await of process_user_batch,
\* where no handler of Exception takes it, and passes; nothing runs after.
Shutdown ==
  /\ handler.pc # "stopped"
  /\ handler' = Stopped
  /\ sleeping' = {}
  /\ procs' = {}
  /\ error_log' = error_log \cup UNION {CancelledLogs(t) : t \in sleeping}
  /\ UNCHANGED <<user_files, user_timers, user_waiting_message, arrivals, age,
                 chainStart, chainRejected, lastBatch, settled, rejected,
                 handed, cancelled, fired, posted>>

\* ------------------------------------------------------- batching properties

\* The current run of arrivals of u that are less than Quiescence apart.
Chain(u) == chainStart[u]..arrivals[u]

Accepted(u) == (1..arrivals[u]) \ rejected[u]

\* Each element is less than the next (so than every later one).
Increasing(s) == \A i \in 1..(Len(s) - 1) : s[i] < s[i + 1]

\* The batches of u that have fired and are known: the latest, and the ones
\* still being processed.
FiredBatches(u) == {lastBatch[u]} \cup {p.batch : p \in {q \in procs : q.u = u}}

OneBatchHoldsAll(u) ==
  \A b \in FiredBatches(u) :
    /\ Increasing(b)
    /\ (Chain(u) \cap Range(b) # {}) => Chain(u) \subseteq Range(b)

GapLaw ==
  \A u \in Users :
    \A b \in {user_files[u]} \cup FiredBatches(u) :
      \A i, j \in Range(b) : ~(i < chainStart[u] /\ chainStart[u] <= j)

\* The timer tasks of u that are pending: neither cancelled nor fired.
Pending(u) == {t \in sleeping : t.u = u}

\* C13: each key has at most one pending timer, the one registered in
\* user_timers, and it was not cancelled; with two or more items buffered it
\* is the timer the latest accepted arrival started; and no batch in
\* progress was fired by a timer that had been cancelled.
OnePendingTimer ==
  \A u \in Users :
    /\ Cardinality(Pending(u)) <= 1
    /\ \A t \in Pending(u) : t.id = user_timers[u] /\ t.id \notin cancelled[u]
    /\ Len(user_files[u]) >= 2 =>
         \E t \in Pending(u) : t.id = user_files[u][Len(user_files[u])]
    /\ \A p \in procs : p.u = u => p.id \notin cancelled[u]

\* An arrival cancelled the pending timer of its key and started a new one.
OnePendingTimerWitness ==
  \E u \in Users :
    /\ cancelled[u] # {}
    /\ \E t \in Pending(u) : \A c \in cancelled[u] : c < t.id

\* C14: non-preemption.  The timer of a batch in progress is no longer the
\* one registered for its key, so the cancel of a later arrival cannot reach
\* it: no batch in progress is cancelled, and it stays in progress until it
\* has settled its items.
NoPreemption ==
  \A p \in procs :
    /\ p.pc # "cancelled"
    /\ user_timers[p.u] # p.id
    /\ p.id \notin cancelled[p.u]
    /\ Range(p.batch) \cap settled[p.u] = {}

\* A later arrival of the same key has restarted the timer while the batch
\* before it is in progress.
NoPreemptionWitness ==
  \E p \in procs :
    /\ p.pc = "items"
    /\ \E t \in Pending(p.u) : t.id > p.id
    /\ cancelled[p.u] # {}

\* C15: the open buffer of a key never holds more than Capacity items, and
\* every batch handed to processing holds between 1 and Capacity items, none
\* of them still in the open buffer.
WindowInvariant ==
  \A u \in Users :
    /\ Len(user_files[u]) <= Capacity
    /\ \A p \in procs : p.u = u =>
         /\ Len(p.batch) >= 1
         /\ Len(p.batch) <= Capacity
         /\ Range(p.batch) \cap Range(user_files[u]) = {}

\* A batch of Capacity items is in progress.
WindowWitness ==
  \E p \in procs : Len(p.batch) = Capacity

Holders(u, i) ==
  Cardinality({p \in procs : p.u = u /\ i \in Range(p.batch)})
  + (IF i \in Range(user_files[u]) THEN 1 ELSE 0)
  + (IF i \in settled[u] THEN 1 ELSE 0)

KeyState(u) == <<user_files[u], user_timers[u], user_waiting_message[u]>>

\* The batches of u that are being processed.
BatchesOf(u) == {p \in procs : p.u = u}

\* This step is a step of key a: a document of a is handed over, the handler
\* of a document of a returns, a timer of a is started, cancelled or fires,
\* or a batch of a finishes.
Acts(a) ==
  \/ arrivals'[a] # arrivals[a]
  \/ handler.pc # "idle" /\ handler.u = a /\ handler'.pc = "idle"
  \/ {t.id : t \in Pending(a)}' # {t.id : t \in Pending(a)}
  \/ BatchesOf(a)' # BatchesOf(a)

\* A timer of b that is due can fire although a batch of another key is
\* being processed.
CanFireBeside ==
  \A t \in sleeping :
    (TimerDue(t) /\ \E p \in procs : p.u # t.u)
      => ENABLED (TimerFire(t) /\ UNCHANGED <<dbVars, convVars, archVars>>)

\* C23: per-key independence.  A step of key a (a submission, a timer reset,
\* the firing or the processing of a batch of a) leaves the buffer, the timer
\* handle and the waiting-message entry of every other key b as they are,
\* and b's pending timers and batches in progress with them; and a due timer
\* of b can fire while a batch of a is being processed.
PerKeyIndependence ==
  [][/\ CanFireBeside
     /\ \A a \in Users : Acts(a) =>
          \A b \in Users \ {a} :
            /\ KeyState(b)' = KeyState(b)
            /\ Pending(b) \subseteq sleeping'
            /\ BatchesOf(b)' = BatchesOf(b)
    ]_vars

\* The batches of two keys are being processed at the same time, and a
\* third document is buffered.
IndependenceWitness ==
  \E p, q \in procs :
    /\ p.u # q.u
    /\ p.pc = "items"
    /\ q.pc = "items"
    /\ \E u \in Users : user_files[u] # <<>>

\* C24: on shutdown every pending timer that has not fired is drained (its
\* buffered items are processed) or given up with a fault logged for its
\* key, so no buffered item is dropped silently.
ShutdownLeaksNothing ==
  [][(handler.pc # "stopped" /\ handler'.pc = "stopped") =>
       \A u \in Users : Pending(u) # {} =>
         \/ Range(user_files[u]) \subseteq settled'[u]
         \/ \E e \in error_log' \ error_log : e.u = u
    ]_vars

\* A handler of a document of u is in flight.
Handling(u) == handler.pc # "idle" /\ handler.u = u

\* C25: buffered items stay live.  Whenever the buffer of a key holds an
\* item and no handler of that key is in flight, a pending timer of the key
\* is registered (so the item is fired without a further submission), also
\* after the send of the "Please wait" notice raised.
BufferHasTimer ==
  \A u \in Users :
    (user_files[u] # <<>> /\ ~Handling(u)) =>
      \E t \in Pending(u) : t.id = user_timers[u]

\* C26: no duplication across batches.  The batches fired for a key are
\* pairwise disjoint and none holds an item twice, a fired item is an
\* accepted one that has left the open buffer, and the batches in progress
\* are fired batches, each processed by one task.
NoDuplication ==
  \A u \in Users :
    /\ \A j, k \in 1..Len(fired[u]) :
         j # k => Range(fired[u][j]) \cap Range(fired[u][k]) = {}
    /\ \A j \in 1..Len(fired[u]) :
         /\ Increasing(fired[u][j])
         /\ Range(fired[u][j]) \subseteq Accepted(u)
         /\ Range(fired[u][j]) \cap Range(user_files[u]) = {}
    /\ \A p, q \in BatchesOf(u) :
         /\ p.batch \in Range(fired[u])
         /\ p.batch = q.batch => p = q

\* Two batches of one key have fired, after a timer of the key was reset.
NoDuplicationWitness ==
  \E u \in Users :
    /\ Len(fired[u]) >= 2
    /\ cancelled[u] # {}
    /\ Len(fired[u][1]) >= 2

\* The message a batch edits to "Done" when a conversion succeeded is the
\* one it captured (lines 610, 704-710); it is the message posted for the
\* batch's own first file, when one was posted.
EditsOwnMessage ==
  \A p \in procs :
    p.posted # NoneMsg => p.waiting_msg = p.posted

\* A batch that finishes leaves the entry of a later window of its key.
KeepsLaterEntry ==
  \A p \in procs :
    (p \notin procs' /\ user_waiting_message[p.u] > p.id)
      => user_waiting_message'[p.u] = user_waiting_message[p.u]

\* C27: every batch with a successful conversion edits the waiting message
\* posted for its own first file, also when an earlier batch of the key
\* finishes while the later window is open: a finishing batch never removes
\* the user_waiting_message entry of a later window.
OwnWaitingMessage == [][EditsOwnMessage /\ KeepsLaterEntry]_vars

\* C29: every converted file is delivered to the chat its source file was
\* submitted in.  The chat process_user_batch sends to (the chat_id its timer
\* task was created with) is the chat of every item of its batch, also when
\* the user submitted from two chats within one window.
DeliveredToOwnChat ==
  \A p \in procs :
    \A i \in Range(p.batch) : p.chat_id = ChatOf(p.u, i)

\* C30 as stated: at most one fired batch of a key is being processed at
\* any time.
OneBatchAtATime ==
  \A u \in Users : Cardinality(BatchesOf(u)) <= 1

\* C30, amended: batches of one key can be in processing at the same time (a
\* later batch starts when its own timer fires, whether or not the earlier
\* one has finished delivering); batches of a key that are in progress
\* together were fired by different timers and share no item, and the one
\* fired later holds only arrivals later than every item of the other.
OverlappingBatchesAreDisjoint ==
  \A u \in Users :
    \A p, q \in BatchesOf(u) :
      p # q =>
        /\ p.id # q.id
        /\ Range(p.batch) \cap Range(q.batch) = {}
        /\ p.id < q.id =>
             \A i \in Range(p.batch), j \in Range(q.batch) : i <= p.id /\ p.id < j

\* Two batches of one key are being processed at the same time.
OverlapWitness ==
  \E u \in Users :
    \E p, q \in BatchesOf(u) :
      p.id < q.id /\ p.pc = "items" /\ q.pc = "items"

\* ============================================================ Part II
\* ------------------------------------------------------- process_user_batch

\* tempfile.NamedTemporaryFile(suffix='.svg', delete=False) of item i
SvgFile(i) == <<"svg", i>>

\* the file converter.convert returns for item i
TgsFile(i) == <<"tgs", i>>

\* the temporary file of a download_file that raised while writing it
\* (i = 0: the archive)
PartialFile(i) == <<"partial", i>>

BatchItems == 1..Len(files_to_process)

\* os.unlink(path) removes the file, or raises and leaves it
UnlinkOutcomes == {"removed", "raised"}

Unlink(files, f, del) == IF del = "removed" THEN files \ {f} ELSE files

Unlinked(log, f, del) == IF del = "removed" THEN Append(log, f) ELSE log

AbortOnFailure(i, failedNow) ==
  IF failedNow THEN Len(files_to_process) + 1 ELSE i + 1

\* Every handler of the loop body is inside the for statement (lines 619-684):
\* whatever happened to item i, the loop goes on with item i + 1.
NextIndex(i, failedNow) == i + 1

\* The loop takes its next item and awaits download_file for it, or is over:
\* line 687 starts the delivery, or nothing is left to do.
AfterItem(i, failedNow, successful) ==
  LET j == NextIndex(i, failedNow) IN
  IF j <= Len(files_to_process)
  THEN /\ idx' = j
       /\ pc' = "download"
       /\ attempted' = attempted \cup {j}
       /\ send_idx' = send_idx
  ELSE /\ idx' = j
       /\ pc' = IF successful # <<>> THEN "send" ELSE "done"
       /\ attempted' = attempted
       /\ send_idx' = 1

\* What validate_svg_file says of a file it rejects (svg_validator.py).
ValidatorReasons ==
  {"File is not a valid SVG format.",
   "SVG must be exactly 512x512 pixels. Your file is 100x100 pixels."}

ValidationFailureReworded(i, why) == [item |-> i, error |-> "Invalid SVG file"]

\* failed_conversions.append({..., 'error': error_message})  (lines 630-633)
ValidationFailure(i, why) == [item |-> i, error |-> why]

ProcessingError(i) == [item |-> i, error |-> "Download/processing error"]

\* await self.download_file(...) of item idx is over (lines 623-634, 672-684,
\* 801-826).  It raised before or after the temporary file was made, or it
\* returned and the validator (which never raises) gave its verdict; a valid
\* file goes on to await converter.convert.
DownloadReturn ==
  /\ job = "batch"
  /\ pc = "download"
  /\ \E out \in {"http_error", "write_error", "invalid", "valid"},
        del \in UnlinkOutcomes, why \in ValidatorReasons :
       LET i == idx
           raised == out = "invalid" /\ del = "raised"
           failedNow ==
             CASE out = "valid" -> <<>>
               [] out = "invalid" ->
                    <<ValidationFailure(i, why)>>
                    \o (IF raised THEN <<ProcessingError(i)>> ELSE <<>>)
               [] OTHER -> <<ProcessingError(i)>>
       IN
       /\ (out # "invalid") => del = "removed"
       /\ verdict' = CASE out = "invalid" -> verdict \cup {<<i, why>>}
                       [] out = "valid" -> verdict \cup {<<i, "valid">>}
                       [] OTHER -> verdict
       /\ invoked' = IF out = "valid" THEN invoked \cup {i} ELSE invoked
       /\ failed_conversions' = failed_conversions \o failedNow
       /\ created' = CASE out = "http_error" -> created
                       [] out = "write_error" -> created \cup {PartialFile(i)}
                       [] OTHER -> created \cup {SvgFile(i)}
       /\ disk' = CASE out = "http_error" -> disk
                    [] out = "write_error" -> disk \cup {PartialFile(i)}
                    [] out = "invalid" ->
                         Unlink(disk \cup {SvgFile(i)}, SvgFile(i), del)
                    [] OTHER -> disk \cup {SvgFile(i)}
       /\ unlink_raised' = IF raised THEN unlink_raised \cup {SvgFile(i)}
                           ELSE unlink_raised
       /\ unlink_log' = IF out = "invalid"
                        THEN Unlinked(unlink_log, SvgFile(i), del)
                        ELSE unlink_log
       /\ fate' = [fate EXCEPT ![i] = CASE out = "valid" -> "valid"
                                        [] out = "invalid" -> "invalid"
                                        [] OTHER -> "download_failed"]
       /\ IF out = "valid"
          THEN /\ pc' = "convert"
               /\ UNCHANGED <<idx, attempted, send_idx>>
          ELSE AfterItem(i, TRUE, successful_conversions)
  /\ UNCHANGED <<job, files_to_process, waiting_msg, successful_conversions,
                 delivered, conversions, notices>>
  /\ UNCHANGED zipVars

\* await self.converter.convert(file_path) is over (lines 637-675): the item
\* is recorded as converted or as failed, the row is written, and the finally
\* clause unlinks the downloaded file; an unlink that raises is caught by the
\* outer handler (lines 679-684).
ConvertReturn ==
  /\ job = "batch"
  /\ pc = "convert"
  /\ \E res \in {"converted", "raised"}, del \in UnlinkOutcomes :
       LET i == idx
           ok == res = "converted"
           successful == IF ok THEN Append(successful_conversions, i)
                         ELSE successful_conversions
       IN
       /\ successful_conversions' = successful
       /\ failed_conversions' =
            failed_conversions
            \o (IF ok THEN <<>> ELSE <<[item |-> i, error |-> "converter error"]>>)
            \o (IF del = "raised" THEN <<ProcessingError(i)>> ELSE <<>>)
       /\ conversions' = Append(conversions, [item |-> i, success |-> ok])
       /\ created' = IF ok THEN created \cup {TgsFile(i)} ELSE created
       /\ disk' = Unlink(IF ok THEN disk \cup {TgsFile(i)} ELSE disk,
                         SvgFile(i), del)
       /\ unlink_raised' = IF del = "raised"
                           THEN unlink_raised \cup {SvgFile(i)}
                           ELSE unlink_raised
       /\ unlink_log' = Unlinked(unlink_log, SvgFile(i), del)
       /\ fate' = [fate EXCEPT ![i] = IF ok THEN "converted" ELSE "convert_failed"]
       /\ AfterItem(i, ~ok \/ del = "raised", successful)
  /\ UNCHANGED <<job, files_to_process, waiting_msg, delivered, notices>>
  /\ UNCHANGED zipVars

\* edit_message(chat_id, waiting_msg['message_id'], "Done - 100%"): the text
\* names no item of the batch
DoneText == [text |-> "Done - 100%", names |-> {}]

UnlinkInFinally(ans) == TRUE

\* line 698 is reached whenever send_document did not raise: it returns None
\* for a non-200 answer (lines 878-882)
UnlinkAfterSend(ans) == ans # "raised"

\* await self.send_document(...) of one converted file is over (lines 689-701).
SendReturn ==
  /\ job = "batch"
  /\ pc = "send"
  /\ \E ans \in {"ok", "none", "raised"}, del \in UnlinkOutcomes :
       LET i == successful_conversions[send_idx]
           unlinks == UnlinkAfterSend(ans)
       IN
       /\ ~unlinks => del = "removed"
       /\ delivered' = IF ans # "raised"
                       THEN Append(delivered, [item |-> i, answer |-> ans])
                       ELSE delivered
       /\ disk' = IF unlinks THEN Unlink(disk, TgsFile(i), del) ELSE disk
       /\ unlink_raised' = IF unlinks /\ del = "raised"
                           THEN unlink_raised \cup {TgsFile(i)}
                           ELSE unlink_raised
       /\ unlink_log' = IF unlinks THEN Unlinked(unlink_log, TgsFile(i), del)
                        ELSE unlink_log
       /\ IF send_idx < Len(successful_conversions)
          THEN /\ send_idx' = send_idx + 1
               /\ pc' = "send"
          ELSE /\ send_idx' = send_idx + 1
               /\ pc' = IF waiting_msg # NoneMsg THEN "edit" ELSE "done"
  /\ UNCHANGED <<job, files_to_process, waiting_msg, idx,
                 successful_conversions, failed_conversions, conversions,
                 created, fate, attempted, notices>>
  /\ UNCHANGED zipVars

\* await self.edit_message(..., "Done") is over (lines 704-716): the waiting
\* message was edited, or the answer was not 200, or the request raised.
EditReturn ==
  /\ job = "batch"
  /\ pc = "edit"
  /\ pc' = "done"
  /\ \E r \in {"edited", "none", "raised"} :
       notices' = IF r = "edited" THEN Append(notices, DoneText) ELSE notices
  /\ UNCHANGED <<job, files_to_process, waiting_msg, idx,
                 successful_conversions, failed_conversions, send_idx,
                 delivered, conversions, disk, created, unlink_raised, fate,
                 attempted, unlink_log>>
  /\ UNCHANGED zipVars

\* The dictionary convert_batch starts from (lines 37-43).
EmptyResults ==
  [successful |-> <<>>, failed |-> <<>>, total_processed |-> 0,
   success_count |-> 0, error_count |-> 0]

\* No archive is being handled.
ZipIdle ==
  /\ members = 0
  /\ progress_msg = FALSE
  /\ file_paths = <<>>
  /\ original_names = <<>>
  /\ extraction_errors = <<>>
  /\ tasks = <<>>
  /\ finished = <<>>
  /\ results = EmptyResults


\* ------------------------------------------ BatchConverter (batch_converter.py)

\* the archive download_file saved
ZipFile == <<"zip", 0>>

NoFile == <<"none", 0>>

\* The archives that are uploaded hold up to MaxMembers SVG members, or one
\* more than extract_files_from_zip keeps.
ZipSizes == (0..MaxMembers) \cup {max_files + 1}

\* The members whose zipf.read may raise.
BadSets(m) == SUBSET (1..Min(m, MaxMembers))

\* The loop over svg_files (lines 194-208): a member is written to a
\* temporary file and recorded with its base name, or adds an error.
RECURSIVE ExtractMembers(_, _, _)
ExtractMembers(svg_files, bad, acc) ==
  IF svg_files = <<>>
  THEN acc
  ELSE LET k == Head(svg_files) IN
       ExtractMembers(
         Tail(svg_files), bad,
         IF k \in bad
         THEN [acc EXCEPT !.errors = Append(@, [kind |-> "Could not extract",
                                                 member |-> k])]
         ELSE [acc EXCEPT !.file_paths = Append(@, SvgFile(k)),
                          !.original_names = Append(@, k)])

ExtractWithoutLimit(m, bad, readable) ==
  IF ~readable
  THEN [file_paths |-> <<>>, original_names |-> <<>>,
        errors |-> <<[kind |-> "Could not read ZIP archive", member |-> 0]>>]
  ELSE ExtractMembers([k \in 1..m |-> k], bad,
                      [file_paths |-> <<>>, original_names |-> <<>>,
                       errors |-> <<>>])

\* extract_files_from_zip (lines 173-213) on an archive with SVG members
\* 1..m, of which those in bad cannot be read; an unreadable archive gives
\* one error and no file.
ExtractFilesFromZip(m, bad, readable) ==
  IF ~readable
  THEN [file_paths |-> <<>>, original_names |-> <<>>,
        errors |-> <<[kind |-> "Could not read ZIP archive", member |-> 0]>>]
  ELSE LET svg_files == [k \in 1..m |-> k]
           tooMany == Len(svg_files) > max_files
       IN ExtractMembers(
            IF tooMany THEN SubSeq(svg_files, 1, max_files) ELSE svg_files,
            bad,
            [file_paths |-> <<>>, original_names |-> <<>>,
             errors |-> IF tooMany
                        THEN <<[kind |-> "Too many SVG files", member |-> 0]>>
                        ELSE <<>>])

\* What one _convert_single_file returns (lines 85-89, 97-103, 107-111).
Converted(name) ==
  [success |-> TRUE, file |-> name, error |-> "", tgs_path |-> TgsFile(name)]

NotConverted(name, why) ==
  [success |-> FALSE, file |-> name, error |-> why, tgs_path |-> NoFile]

\* A task gather has made, before its first step.
Created == [st |-> "created", result |-> NotConverted(0, "")]

RecordResultForgetsCount(res, result, name) ==
  LET counted == [res EXCEPT !.total_processed = @ + 1] IN
  IF result.success
  THEN [counted EXCEPT !.successful = Append(@, result),
                       !.success_count = @ + 1]
  ELSE [counted EXCEPT !.failed = Append(@, [file |-> name,
                                             error |-> result.error])]

\* One turn of the loop over conversion_results (lines 56-74).  No result is
\* an exception: _convert_single_file catches every Exception itself.
RecordResult(res, result, name) ==
  LET counted == [res EXCEPT !.total_processed = @ + 1] IN
  IF result.success
  THEN [counted EXCEPT !.successful = Append(@, result),
                       !.success_count = @ + 1]
  ELSE [counted EXCEPT !.failed = Append(@, [file |-> name,
                                             error |-> result.error]),
                       !.error_count = @ + 1]

\* The loop of lines 56-74 from position i on.
RECURSIVE ProcessResults(_, _, _, _)
ProcessResults(res, conversion_results, names, i) ==
  IF i > Len(conversion_results)
  THEN res
  ELSE ProcessResults(RecordResult(res, conversion_results[i], names[i]),
                      conversion_results, names, i + 1)

GatherInCompletionOrder(ts, order) ==
  [i \in 1..Len(ts) |-> ts[order[i]].result]

\* asyncio.gather (line 53) gives the results in the order of the awaitables
\* it was handed, whatever the order in which they completed.
GatherResults(ts, order) == [i \in 1..Len(ts) |-> ts[i].result]

\* cleanup_temp_files(file_paths) (lines 157-162): every file is unlinked; an
\* unlink that raises (the files in stuck) is logged as a warning.
CleanupTempFiles(files, paths, stuck) == files \ (Range(paths) \ stuck)

\* --------------------------------------------------- handle_batch_conversion

\* Control leaves the try of lines 742-795, with an exception under way or
\* not: the finally clause unlinks the archive, and an exception (also one
\* of that unlink) is taken by the handler of line 797, which awaits
\* send_message.
LeaveTry(exc, del, files, log, raised) ==
  /\ disk' = Unlink(files, ZipFile, del)
  /\ unlink_log' = Unlinked(log, ZipFile, del)
  /\ unlink_raised' = IF del = "raised" THEN raised \cup {ZipFile} ELSE raised
  /\ pc' = IF exc \/ del = "raised" THEN "z_failed" ELSE "done"

\* await send_message("Processing ZIP archive...") is over (lines 734-740).
ProgressReturn ==
  /\ job = "zip"
  /\ pc = "z_progress"
  /\ \E r \in {"message", "none", "raised"} :
       /\ progress_msg' = (r = "message")
       /\ pc' = IF r = "raised" THEN "z_failed" ELSE "z_download"
  /\ UNCHANGED <<job, send_idx, delivered, disk, created, unlink_raised,
                 unlink_log, members, file_paths, original_names,
                 extraction_errors, tasks, finished, results>>
  /\ UNCHANGED batchVars

\* await download_file(zip) is over (lines 740-755): it raised, or the
\* archive is saved and extract_files_from_zip runs; then an error notice is
\* awaited, or convert_batch makes its tasks and awaits gather.
ZipDownloadReturn ==
  /\ job = "zip"
  /\ pc = "z_download"
  /\ \E out \in {"http_error", "write_error", "unreadable", "readable"},
        bad \in BadSets(members) :
       LET got == ExtractFilesFromZip(members, bad, out = "readable")
           saved == out \in {"unreadable", "readable"}
       IN
       /\ (out # "readable") => bad = {}
       /\ IF saved
          THEN /\ file_paths' = got.file_paths
               /\ original_names' = got.original_names
               /\ extraction_errors' = got.errors
               /\ disk' = disk \cup {ZipFile} \cup Range(got.file_paths)
               /\ created' = created \cup {ZipFile} \cup Range(got.file_paths)
               /\ IF got.errors # <<>> \/ got.file_paths = <<>>
                  THEN /\ pc' = "z_notify"
                       /\ tasks' = tasks
                  ELSE /\ pc' = "z_gather"
                       /\ tasks' = [i \in 1..Len(got.file_paths) |-> Created]
          ELSE /\ pc' = "z_failed"
               /\ disk' = IF out = "write_error"
                          THEN disk \cup {PartialFile(0)} ELSE disk
               /\ created' = IF out = "write_error"
                             THEN created \cup {PartialFile(0)} ELSE created
               /\ UNCHANGED <<file_paths, original_names, extraction_errors,
                              tasks>>
  /\ UNCHANGED <<job, send_idx, delivered, unlink_raised, unlink_log, members,
                 progress_msg, finished, results>>
  /\ UNCHANGED batchVars

\* await send_message of "ZIP extraction errors" or of "No SVG files found"
\* is over; the handler returns (lines 746-752, 792-795).
NotifyReturn ==
  /\ job = "zip"
  /\ pc = "z_notify"
  /\ \E r \in {"returned", "raised"}, del \in UnlinkOutcomes :
       LeaveTry(r = "raised", del, disk, unlink_log, unlink_raised)
  /\ UNCHANGED <<job, send_idx, delivered, created>>
  /\ UNCHANGED zipVars
  /\ UNCHANGED batchVars

\* A task of gather takes its first step (lines 80-92): the validator
\* rejects the file, or converter.convert is awaited.  The tasks start in
\* the order gather made them.
TaskStart(i) ==
  /\ job = "zip"
  /\ pc = "z_gather"
  /\ i \in 1..Len(tasks)
  /\ tasks[i].st = "created"
  /\ \A k \in 1..(i - 1) : tasks[k].st # "created"
  /\ \E valid \in BOOLEAN, why \in ValidatorReasons :
       /\ tasks' = [tasks EXCEPT ![i] =
                      IF valid THEN [@ EXCEPT !.st = "converting"]
                      ELSE [st |-> "done",
                            result |-> NotConverted(original_names[i], why)]]
       /\ verdict' = verdict \cup {<<i, IF valid THEN "valid" ELSE why>>}
       /\ invoked' = IF valid THEN invoked \cup {i} ELSE invoked
       /\ finished' = IF valid THEN finished ELSE Append(finished, i)
  /\ UNCHANGED <<job, pc, send_idx, delivered, disk, created, unlink_raised,
                 unlink_log, members, progress_msg, file_paths,
                 original_names, extraction_errors, results>>
  /\ UNCHANGED batchVars

\* await converter.convert of task i is over (lines 92-111), whichever task
\* comes first.
TaskConvertReturn(i) ==
  /\ job = "zip"
  /\ pc = "z_gather"
  /\ i \in 1..Len(tasks)
  /\ tasks[i].st = "converting"
  /\ \E ok \in BOOLEAN :
       LET name == original_names[i] IN
       /\ tasks' = [tasks EXCEPT ![i] =
                      [st |-> "done",
                       result |-> IF ok THEN Converted(name)
                                  ELSE NotConverted(name, "converter error")]]
       /\ disk' = IF ok THEN disk \cup {TgsFile(name)} ELSE disk
       /\ created' = IF ok THEN created \cup {TgsFile(name)} ELSE created
       /\ finished' = Append(finished, i)
  /\ UNCHANGED <<job, pc, send_idx, delivered, unlink_raised, unlink_log,
                 members, progress_msg, file_paths, original_names,
                 extraction_errors, results>>
  /\ UNCHANGED batchVars

\* gather returns the results in the order of the tasks (line 53); the
\* results are counted, the extracted files are cleaned up, and the first
\* message of the delivery is awaited (lines 56-76, 755-790).  Without a
\* progress message, progress_msg['message_id'] raises.
GatherReturn ==
  /\ job = "zip"
  /\ pc = "z_gather"
  /\ \A i \in 1..Len(tasks) : tasks[i].st = "done"
  /\ \E stuck \in SUBSET Range(file_paths), del \in UnlinkOutcomes :
       LET conversion_results == GatherResults(tasks, finished)
           res == ProcessResults(EmptyResults, conversion_results,
                                 original_names, 1)
           files == CleanupTempFiles(disk, file_paths, stuck)
           log == unlink_log \o SelectSeq(file_paths, LAMBDA f : f \notin stuck)
           raised == unlink_raised \cup stuck
           typeError == res.successful # <<>> /\ ~progress_msg
       IN
       /\ results' = res
       /\ send_idx' = 1
       /\ IF typeError
          THEN LeaveTry(TRUE, del, files, log, raised)
          ELSE /\ del = "removed"
               /\ disk' = files
               /\ unlink_log' = log
               /\ unlink_raised' = raised
               /\ pc' = IF res.successful # <<>> THEN "z_edit" ELSE "z_summary"
  /\ UNCHANGED <<job, delivered, created, members, progress_msg, file_paths,
                 original_names, extraction_errors, tasks, finished>>
  /\ UNCHANGED batchVars

\* await edit_message("Sending n converted files...") is over (762-766).
ZipEditReturn ==
  /\ job = "zip"
  /\ pc = "z_edit"
  /\ \E r \in {"returned", "raised"}, del \in UnlinkOutcomes :
       IF r = "raised"
       THEN LeaveTry(TRUE, del, disk, unlink_log, unlink_raised)
       ELSE /\ del = "removed"
            /\ pc' = "z_send"
            /\ UNCHANGED <<disk, unlink_log, unlink_raised>>
  /\ UNCHANGED <<job, send_idx, delivered, created>>
  /\ UNCHANGED zipVars
  /\ UNCHANGED batchVars

\* await send_document of one converted file is over (lines 768-779).
ZipSendReturn ==
  /\ job = "zip"
  /\ pc = "z_send"
  /\ \E ans \in {"ok", "none", "raised"}, del \in UnlinkOutcomes :
       LET f == results.successful[send_idx].tgs_path
           unlinks == UnlinkAfterSend(ans)
       IN
       /\ ~unlinks => del = "removed"
       /\ delivered' = IF ans # "raised"
                       THEN Append(delivered,
                                   [item |-> results.successful[send_idx].file,
                                    answer |-> ans])
                       ELSE delivered
       /\ disk' = IF unlinks THEN Unlink(disk, f, del) ELSE disk
       /\ unlink_raised' = IF unlinks /\ del = "raised"
                           THEN unlink_raised \cup {f} ELSE unlink_raised
       /\ unlink_log' = IF unlinks THEN Unlinked(unlink_log, f, del)
                        ELSE unlink_log
       /\ send_idx' = send_idx + 1
       /\ pc' = IF send_idx < Len(results.successful) THEN "z_send"
                ELSE "z_summary"
  /\ UNCHANGED <<job, created>>
  /\ UNCHANGED zipVars
  /\ UNCHANGED batchVars

\* await send_message(summary) is over (lines 782-795).
SummaryReturn ==
  /\ job = "zip"
  /\ pc = "z_summary"
  /\ \E r \in {"returned", "raised"}, del \in UnlinkOutcomes :
       LeaveTry(r = "raised", del, disk, unlink_log, unlink_raised)
  /\ UNCHANGED <<job, send_idx, delivered, created>>
  /\ UNCHANGED zipVars
  /\ UNCHANGED batchVars

\* await send_message("ZIP processing failed") is over (lines 797-799).
FailureNoticeReturn ==
  /\ job = "zip"
  /\ pc = "z_failed"
  /\ pc' = "done"
  /\ UNCHANGED <<job, send_idx, delivered, disk, created, unlink_raised,
                 unlink_log>>
  /\ UNCHANGED zipVars
  /\ UNCHANGED batchVars

\* No fired batch is being processed.
BatchIdle ==
  /\ files_to_process = <<>>
  /\ waiting_msg = NoneMsg
  /\ idx = 0
  /\ successful_conversions = <<>>
  /\ failed_conversions = <<>>
  /\ conversions = <<>>
  /\ fate = <<>>
  /\ attempted = {}
  /\ notices = <<>>

\* handle_batch_conversion got an archive with m SVG members and awaits its
\* first send_message (line 734).
ZipInit(m) ==
  /\ job = "zip"
  /\ pc = "z_progress"
  /\ BatchIdle
  /\ send_idx = 0
  /\ delivered = <<>>
  /\ disk = {}
  /\ created = {}
  /\ unlink_raised = {}
  /\ unlink_log = <<>>
  /\ verdict = {}
  /\ invoked = {}
  /\ members = m
  /\ progress_msg = FALSE
  /\ file_paths = <<>>
  /\ original_names = <<>>
  /\ extraction_errors = <<>>
  /\ tasks = <<>>
  /\ finished = <<>>
  /\ results = EmptyResults

\* process_user_batch has captured a batch of n items and awaits the first
\* download (line 623).
BatchInit(n, msg) ==
  /\ job = "batch"
  /\ pc = "download"
  /\ files_to_process = [i \in 1..n |-> i]
  /\ waiting_msg = msg
  /\ idx = 1
  /\ successful_conversions = <<>>
  /\ failed_conversions = <<>>
  /\ send_idx = 0
  /\ delivered = <<>>
  /\ conversions = <<>>
  /\ disk = {}
  /\ created = {}
  /\ unlink_raised = {}
  /\ fate = [i \in 1..n |-> "pending"]
  /\ attempted = {1}
  /\ notices = <<>>
  /\ unlink_log = <<>>
  /\ verdict = {}
  /\ invoked = {}
  /\ ZipIdle

\* -------------------------------------------------------------- convert_batch

TooManyNever(paths) == FALSE

\* if len(file_paths) > self.max_files  (line 34)
TooMany(paths) == Len(paths) > max_files

\* convert_batch(file_paths, original_names) is called and runs to its first
\* await (lines 34-53): it raises ValueError, or makes one task per path and
\* awaits gather.
ConvertBatchCall ==
  /\ job = "zip"
  /\ pc = "c_call"
  /\ IF TooMany(file_paths)
     THEN /\ pc' = "c_raised"
          /\ tasks' = tasks
     ELSE /\ pc' = "z_gather"
          /\ tasks' = [i \in 1..Len(file_paths) |-> Created]
  /\ UNCHANGED <<job, send_idx, delivered, disk, created, unlink_raised,
                 unlink_log, members, progress_msg, file_paths,
                 original_names, extraction_errors, finished, results>>
  /\ UNCHANGED batchVars

\* gather is over: the results are counted and returned (lines 53-76).
ConvertBatchReturn ==
  /\ job = "zip"
  /\ pc = "z_gather"
  /\ \A i \in 1..Len(tasks) : tasks[i].st = "done"
  /\ results' = ProcessResults(EmptyResults, GatherResults(tasks, finished),
                               original_names, 1)
  /\ pc' = "c_returned"
  /\ UNCHANGED <<job, send_idx, delivered, disk, created, unlink_raised,
                 unlink_log, members, progress_msg, file_paths,
                 original_names, extraction_errors, tasks, finished>>
  /\ UNCHANGED batchVars

\* The sizes of the lists convert_batch is called with.
CallSizes == (0..MaxPaths) \cup {max_files + 1}

\* convert_batch is about to be called with n paths of files that exist.
CallInit(n) ==
  /\ job = "zip"
  /\ pc = "c_call"
  /\ BatchIdle
  /\ send_idx = 0
  /\ delivered = <<>>
  /\ disk = {SvgFile(i) : i \in 1..n}
  /\ created = {}
  /\ unlink_raised = {}
  /\ unlink_log = <<>>
  /\ verdict = {}
  /\ invoked = {}
  /\ members = n
  /\ progress_msg = TRUE
  /\ file_paths = [i \in 1..n |-> SvgFile(i)]
  /\ original_names = [i \in 1..n |-> i]
  /\ extraction_errors = <<>>
  /\ tasks = <<>>
  /\ finished = <<>>
  /\ results = EmptyResults

\* No conversion job is followed.
ConvIdle ==
  /\ job = "none"
  /\ pc = "idle"
  /\ files_to_process = <<>>
  /\ waiting_msg = NoneMsg
  /\ idx = 0
  /\ successful_conversions = <<>>
  /\ failed_conversions = <<>>
  /\ send_idx = 0
  /\ delivered = <<>>
  /\ conversions = <<>>
  /\ disk = {}
  /\ created = {}
  /\ unlink_raised = {}
  /\ fate = <<>>
  /\ attempted = {}
  /\ notices = <<>>
  /\ unlink_log = <<>>
  /\ verdict = {}
  /\ invoked = {}
  /\ ZipIdle

\* ============================================================ Part III
\* ------------------------------------------------ create_result_archive

\* Original file names, as <<stem, suffix>>; two of them share their stem.
Names == {<<"a", ".svg">>, <<"a", ".SVG">>, <<"b", ".svg">>}

FailedNames == {<<"c", ".svg">>, <<"d", ".svg">>}

Reasons == {"validator reason", "converter error"}

\* Path(original_name).stem
Stem(name) == name[1]

\* 'output_name': Path(original_name).stem + '.tgs'  (line 102)
OutputName(name) == <<Stem(name), ".tgs">>

\* The successful result of _convert_single_file for the file at position i
\* (lines 97-103).
Packed(name, i) ==
  [file |-> name, tgs_path |-> TgsFile(i), output_name |-> OutputName(name)]

\* f"converted/{output_name}"
ConvertedEntry(output_name) == <<"converted", output_name>>

\* "ERRORS.txt"
ErrorsTxt == <<"", "ERRORS.txt">>

\* One numbered item of the report (lines 140-142).
ReportLine(i, failure) ==
  [number |-> i, file |-> failure.file, error |-> failure.error]

ErrorReportDropsLast(failed) ==
  [i \in 1..(Len(failed) - 1) |-> ReportLine(i, failed[i])]

\* for i, failure in enumerate(failed_conversions, 1)  (lines 136-142)
ErrorReport(failed) == [i \in 1..Len(failed) |-> ReportLine(i, failed[i])]

AlwaysReports(failed) == TRUE

\* if failed_conversions:  (line 135)
WantsReport(failed) == failed # <<>>

ZipAlwaysLeft(del) == TRUE

\* The handler of lines 148-152: os.unlink(zip_path), then raise.  The file
\* stays only when that unlink raises itself.
ZipLeft(del) == del = "raised"

\* An exception inside the try (lines 125-146) reaches the handler.
ArchFail(del) ==
  /\ arch_pc' = "raised"
  /\ zip_on_disk' = ZipLeft(del)
  /\ zip_unlink_raised' = (del = "raised")
  /\ UNCHANGED <<zip_entries, arch_k>>

\* One turn of the loop over successful_conversions (lines 127-132): the
\* output is written under converted/, skipped when it does not exist, or
\* the write raises.
ArchWrite ==
  /\ arch_pc = "write"
  /\ LET conversion == arch_successful[arch_k] IN
     \E out \in {"written", "raised"}, del \in UnlinkOutcomes :
       IF conversion.tgs_path \in arch_present /\ out = "raised"
       THEN ArchFail(del)
       ELSE /\ out = "written"
            /\ del = "removed"
            /\ zip_entries' =
                 IF conversion.tgs_path \in arch_present
                 THEN Append(zip_entries,
                             [name |-> ConvertedEntry(conversion.output_name),
                              data |-> conversion.tgs_path])
                 ELSE zip_entries
            /\ arch_k' = arch_k + 1
            /\ arch_pc' = IF arch_k < Len(arch_successful)
                          THEN "write" ELSE "report"
            /\ UNCHANGED <<zip_on_disk, zip_unlink_raised>>
  /\ UNCHANGED <<arch_successful, arch_failed, arch_present>>

\* The error report (lines 135-144): written as one entry when there are
\* failures, or the writestr raises.
ArchReport ==
  /\ arch_pc = "report"
  /\ \E out \in {"written", "raised"}, del \in UnlinkOutcomes :
       IF WantsReport(arch_failed) /\ out = "raised"
       THEN ArchFail(del)
       ELSE /\ out = "written"
            /\ del = "removed"
            /\ zip_entries' =
                 IF WantsReport(arch_failed)
                 THEN Append(zip_entries, [name |-> ErrorsTxt,
                                           data |-> ErrorReport(arch_failed)])
                 ELSE zip_entries
            /\ arch_pc' = "close"
            /\ UNCHANGED <<arch_k, zip_on_disk, zip_unlink_raised>>
  /\ UNCHANGED <<arch_successful, arch_failed, arch_present>>

\* The with statement closes the archive (line 125) and zip_path is
\* returned (line 146), or closing raises.
ArchClose ==
  /\ arch_pc = "close"
  /\ \E out \in {"closed", "raised"}, del \in UnlinkOutcomes :
       IF out = "raised"
       THEN ArchFail(del)
       ELSE /\ del = "removed"
            /\ arch_pc' = "returned"
            /\ UNCHANGED <<zip_entries, arch_k, zip_on_disk, zip_unlink_raised>>
  /\ UNCHANGED <<arch_successful, arch_failed, arch_present>>

\* create_result_archive is not running.
ArchIdle ==
  /\ arch_pc = "idle"
  /\ arch_successful = <<>>
  /\ arch_failed = <<>>
  /\ arch_present = {}
  /\ arch_k = 0
  /\ zip_entries = <<>>
  /\ zip_on_disk = FALSE
  /\ zip_unlink_raised = FALSE

\* create_result_archive(successful, failed) has made its temporary file
\* (lines 121-122) and enters the try.
ArchStart(successful, failed, present) ==
  /\ arch_pc = IF successful # <<>> THEN "write" ELSE "report"
  /\ arch_successful = successful
  /\ arch_failed = failed
  /\ arch_present = present
  /\ arch_k = 1
  /\ zip_entries = <<>>
  /\ zip_on_disk = TRUE
  /\ zip_unlink_raised = FALSE

\* ------------------------------------------------------ pipeline properties

\* convert_batch has returned its results.
Returned == job = "zip" /\ tasks # <<>> /\ pc # "z_gather"

\* C4: the counts of a result of convert_batch reconcile: success_count +
\* error_count = total_processed = the number of files given, and each count
\* is the length of its list.
CountsReconcile ==
  Returned =>
    /\ results.success_count + results.error_count = results.total_processed
    /\ results.total_processed = Len(file_paths)
    /\ results.success_count = Len(results.successful)
    /\ results.error_count = Len(results.failed)

\* A result with a conversion that succeeded and one that failed.
CountsWitness ==
  /\ Returned
  /\ results.success_count >= 1
  /\ results.error_count >= 1

SuccessEntries(i) ==
  Cardinality({k \in 1..Len(successful_conversions) :
                 successful_conversions[k] = i})

FailedEntries(i) ==
  Cardinality({k \in 1..Len(failed_conversions) :
                 failed_conversions[k].item = i})

\* The for loop of process_user_batch is through with item i.
Through(i) == job = "batch" /\ i \in BatchItems /\ i < idx

\* C5: every item of the fired batch ends in exactly one of
\* successful_conversions and failed_conversions, with one entry.
ExactlyOneOutcome ==
  \A i \in BatchItems : Through(i) => SuccessEntries(i) + FailedEntries(i) = 1

\* C6: a failure of one item does not keep its siblings from their own
\* outcome.  In process_user_batch the loop takes up every item of the batch
\* and delivery starts only after the last; each item it is through with is
\* recorded according to how its own pipeline ended.  In convert_batch every
\* task is done when gather returns and is recorded by its own result.
FailuresAreIsolated ==
  /\ job = "batch" =>
       /\ pc \in {"send", "edit", "done"} =>
            (idx > Len(files_to_process) /\ attempted = BatchItems)
       /\ \A i \in BatchItems : Through(i) =>
            /\ fate[i] \in {"download_failed", "invalid", "convert_failed",
                            "converted"}
            /\ fate[i] = "converted" => SuccessEntries(i) = 1
            /\ fate[i] # "converted" =>
                 (SuccessEntries(i) = 0 /\ FailedEntries(i) >= 1)
  /\ Returned =>
       \A i \in 1..Len(tasks) :
         /\ tasks[i].st = "done"
         /\ IF tasks[i].result.success
            THEN tasks[i].result \in Range(results.successful)
            ELSE [file |-> original_names[i], error |-> tasks[i].result.error]
                   \in Range(results.failed)

\* The first item of a batch of two failed, the second is converted.
IsolationWitness ==
  /\ job = "batch"
  /\ pc = "done"
  /\ Len(files_to_process) = 2
  /\ fate[1] = "invalid"
  /\ fate[2] = "converted"
  /\ successful_conversions = <<2>>

\* The downloaded inputs and the converted outputs of the fired batch.
BatchArtifacts == {SvgFile(i) : i \in BatchItems} \cup {TgsFile(i) : i \in BatchItems}

\* C7: once process_user_batch is over, no downloaded input and no converted
\* output of the batch is left on disk (no os.unlink having raised).
CleanupLaw ==
  (job = "batch" /\ pc = "done" /\ unlink_raised = {})
    => disk \cap BatchArtifacts = {}

\* C8: once handle_batch_conversion is over after the archive was saved, the
\* archive, the extracted files and the converted outputs are deleted (no
\* os.unlink having raised).
ZipCleanup ==
  (job = "zip" /\ pc = "done" /\ ZipFile \in created /\ unlink_raised = {})
    => disk = {}

\* C9: an os.unlink that raises changes no outcome: the outer handler of
\* process_user_batch adds an entry only for an item whose download failed.
ReleaseFailureIsSilent ==
  job = "batch" =>
    \A k \in 1..Len(failed_conversions) :
      failed_conversions[k] = ProcessingError(failed_conversions[k].item)
        => fate[failed_conversions[k].item] = "download_failed"

Removals(f) == Cardinality({k \in 1..Len(unlink_log) : unlink_log[k] = f})

\* C10: when the handler is over, every temporary file made for the job has
\* been removed exactly once (no os.unlink having raised).
ReleasedExactlyOnce ==
  (pc = "done" /\ unlink_raised = {}) =>
    \A f \in created \ {PartialFile(i) : i \in 0..MaxBatch} : Removals(f) = 1

Files(s) == [k \in 1..Len(s) |-> s[k].file]

Items(s) == [k \in 1..Len(s) |-> s[k].item]

NonDecreasing(s) == \A i, j \in 1..Len(s) : i < j => s[i] <= s[j]

\* C11: outcome order is arrival order.  What convert_batch returns lists
\* its successes and its failures each by input position, whichever task
\* completed first; process_user_batch records successes and failures each
\* in the order of the items (an item never before an earlier one) and
\* delivers the outputs in that order.
OutcomeOrderIsArrivalOrder ==
  /\ Returned =>
       /\ Increasing(Files(results.successful))
       /\ Increasing(Files(results.failed))
  /\ job = "batch" =>
       /\ Increasing(successful_conversions)
       /\ NonDecreasing(Items(failed_conversions))
       /\ Increasing(Items(delivered))
       /\ Range(Items(delivered)) \subseteq Range(successful_conversions)

\* The second task completed before the first, and both are converted.
OutcomeOrderWitness ==
  /\ Returned
  /\ finished = <<2, 1>>
  /\ Len(results.successful) = 2

\* The positions the validator rejected, with what it said.
Rejections == {v \in verdict : v[2] # "valid"}

\* C20: for an item that fails validation the converter is not invoked and
\* the failure recorded for it carries the validator's message unchanged: in
\* process_user_batch it is the item's first entry in failed_conversions and
\* the item is in no success; in convert_batch it is the error of the task's
\* result and of the item's entry in the failed list returned.
ValidationFailureIsReported ==
  \A v \in Rejections :
    LET i == v[1]
        why == v[2]
    IN
    /\ i \notin invoked
    /\ job = "batch" =>
         /\ SuccessEntries(i) = 0
         /\ \E k \in 1..Len(failed_conversions) :
              /\ failed_conversions[k] = [item |-> i, error |-> why]
              /\ \A l \in 1..(k - 1) : failed_conversions[l].item # i
    /\ job = "zip" =>
         /\ tasks[i].result = NotConverted(original_names[i], why)
         /\ Returned =>
              /\ [file |-> original_names[i], error |-> why]
                   \in Range(results.failed)
              /\ \A k \in 1..Len(results.successful) :
                   results.successful[k].file # original_names[i]

\* Scenario B: of a batch of two, the first item fails validation and the
\* second is converted: one success, one failure with the validator's words.
ValidationWitness ==
  /\ job = "batch"
  /\ pc = "done"
  /\ <<1, "SVG must be exactly 512x512 pixels. Your file is 100x100 pixels.">>
       \in verdict
  /\ successful_conversions = <<2>>
  /\ failed_conversions =
       <<[item |-> 1,
          error |-> "SVG must be exactly 512x512 pixels. Your file is 100x100 pixels."]>>
  /\ invoked = {2}

\* The calls of db.add_conversion made for item i.
Rows(i) == {k \in 1..Len(conversions) : conversions[k].item = i}

\* C21: the statistics sink gets one record per processed item: for every
\* item the loop of process_user_batch is through with, db.add_conversion was
\* called exactly once, with success true exactly when the item was
\* converted; also for an item whose download or validation failed.
OneRecordPerItem ==
  \A i \in BatchItems : Through(i) =>
    /\ Cardinality(Rows(i)) = 1
    /\ \A k \in Rows(i) : conversions[k].success <=> (fate[i] = "converted")

\* What the submitter was given for item i: its converted file, or a text
\* that names it.
Accounted(i) ==
  \/ \E k \in 1..Len(delivered) :
       delivered[k].item = i /\ delivered[k].answer = "ok"
  \/ \E k \in 1..Len(notices) : i \in notices[k].names

\* C22: callers get a complete result for every fired batch.  When
\* process_user_batch is over the submitter has got a document or a sent or
\* edited message, and what they got accounts for every item of the batch,
\* the failed ones included.
CompleteResult ==
  (job = "batch" /\ pc = "done") =>
    /\ notices # <<>> \/ delivered # <<>>
    /\ \A i \in BatchItems : Accounted(i)

\* The converted outputs os.unlink removed.
RemovedOutputs == {f \in Range(unlink_log) : f[1] = "tgs"}

\* The answers send_document returned for the output f.
Answers(f) ==
  {delivered[k].answer : k \in {d \in 1..Len(delivered) :
                                  TgsFile(delivered[d].item) = f}}

\* C28 as stated: in both delivery loops a converted output is deleted only
\* after its delivery succeeded, never after a non-200 answer.
UnlinkOnlyAfterSuccess ==
  \A f \in RemovedOutputs : "ok" \in Answers(f)

\* C28, amended: a converted output is deleted only after send_document has
\* returned for it, with a result or with None (a non-200 answer), and then
\* it is deleted unless that os.unlink raises; it is not deleted when
\* send_document raised.
UnlinkFollowsSend ==
  /\ \A f \in RemovedOutputs : Answers(f) # {}
  /\ \A k \in 1..Len(delivered) :
       LET f == TgsFile(delivered[k].item) IN
       f \in RemovedOutputs \/ f \in unlink_raised

\* An output was deleted after send_document returned None for it.
UnlinkWitness ==
  \E f \in RemovedOutputs : Answers(f) = {"none"}

\* ------------------------------------------------------- archive properties

EntryNames(entries) == {entries[k].name : k \in 1..Len(entries)}

\* Unpacking the archive: a later entry of the same name replaces the file
\* of an earlier one.
Unpack(entries) ==
  [n \in EntryNames(entries) |->
     LET last == CHOOSE k \in 1..Len(entries) :
                   /\ entries[k].name = n
                   /\ \A l \in (k + 1)..Len(entries) : entries[l].name # n
     IN entries[last].data]

\* The files that unpacking puts under converted/.
ConvertedFiles(entries) ==
  {n \in DOMAIN Unpack(entries) : n[1] = "converted"}

\* C16: the archive create_result_archive returns holds an ERRORS.txt entry
\* if and only if the list of failed conversions is not empty.
ErrorsEntryIffFailures ==
  arch_pc = "returned" =>
    (ErrorsTxt \in EntryNames(zip_entries) <=> arch_failed # <<>>)

\* An archive with a converted file and an ERRORS.txt was returned.
ErrorsEntryWitness ==
  /\ arch_pc = "returned"
  /\ arch_failed # <<>>
  /\ ErrorsTxt \in EntryNames(zip_entries)
  /\ ConvertedFiles(zip_entries) # {}

\* C17: archive round trip.  Unpacking the returned archive gives, under
\* converted/, exactly one file for every successful conversion passed in,
\* named <stem>.tgs, and nothing else.
ArchiveRoundTrip ==
  arch_pc = "returned" =>
    /\ Cardinality(ConvertedFiles(zip_entries)) = Len(arch_successful)
    /\ ConvertedFiles(zip_entries) =
         {ConvertedEntry(OutputName(arch_successful[i].file)) :
            i \in 1..Len(arch_successful)}
    /\ \A i \in 1..Len(arch_successful) :
         \E n \in ConvertedFiles(zip_entries) :
           Unpack(zip_entries)[n] = arch_successful[i].tgs_path

\* Everything one complete run writes: the outputs that exist, in order,
\* then the report when there are failures.
RECURSIVE WrittenOutputs(_, _)
WrittenOutputs(successful, present) ==
  IF successful = <<>>
  THEN <<>>
  ELSE (IF Head(successful).tgs_path \in present
        THEN <<[name |-> ConvertedEntry(Head(successful).output_name),
                data |-> Head(successful).tgs_path]>>
        ELSE <<>>)
       \o WrittenOutputs(Tail(successful), present)

Manifests ==
  {k \in 1..Len(zip_entries) : zip_entries[k].name = ErrorsTxt}

\* C19: with failures, the returned archive has one ERRORS.txt entry, which
\* lists the failed conversions once each, numbered 1..Len in the order of
\* the list, each with its file name and its error.
ManifestListsFailures ==
  (arch_pc = "returned" /\ arch_failed # <<>>) =>
    /\ Cardinality(Manifests) = 1
    /\ \A k \in Manifests :
         LET report == zip_entries[k].data IN
         /\ Len(report) = Len(arch_failed)
         /\ \A i \in 1..Len(arch_failed) :
              /\ report[i].number = i
              /\ report[i].file = arch_failed[i].file
              /\ report[i].error = arch_failed[i].error

\* A manifest of two failures with different reasons.
ManifestWitness ==
  /\ arch_pc = "returned"
  /\ Len(arch_failed) = 2
  /\ arch_failed[1].error # arch_failed[2].error
  /\ Manifests # {}

\* ----------------------------------------------------- extraction properties

\* extract_files_from_zip has returned, and the archive could be opened.
Extracted ==
  /\ job = "zip"
  /\ ZipFile \in created
  /\ \A e \in Range(extraction_errors) : e.kind # "Could not read ZIP archive"

\* The members that an error of the extraction names.
NotExtracted ==
  {e.member : e \in {x \in Range(extraction_errors) :
                       x.kind = "Could not extract"}}

\* C34: extract_files_from_zip returns file_paths and original_names of the
\* same length, at most max_files, with original_names[i] the name of the
\* member that was written to file_paths[i].  Of an archive with more than
\* max_files SVG members only the first max_files are looked at, in their
\* order, and an error says so; each of the members looked at is extracted
\* or named by an error of its own, whatever happened to the others.
ExtractionIsAligned ==
  /\ Len(file_paths) = Len(original_names)
  /\ Len(file_paths) <= max_files
  /\ \A i \in 1..Len(file_paths) : file_paths[i] = SvgFile(original_names[i])
  /\ Extracted =>
       /\ (members > max_files)
            <=> \E e \in Range(extraction_errors) : e.kind = "Too many SVG files"
       /\ Range(original_names) \cup NotExtracted = 1..Min(members, max_files)
       /\ Range(original_names) \cap NotExtracted = {}
       /\ Increasing(original_names)
       /\ Len(extraction_errors)
            = Cardinality(NotExtracted) + (IF members > max_files THEN 1 ELSE 0)

\* An archive with more than max_files members, of which the first cannot be
\* read and the others of the first max_files are extracted.
ExtractionWitness ==
  /\ Extracted
  /\ members > max_files
  /\ NotExtracted = {1}
  /\ Len(file_paths) = max_files - 1
  /\ original_names[1] = 2
  /\ Len(extraction_errors) = 2

\* The entry of results['failed'] for position i and the error why.
FailedEntry(i, why) == [file |-> original_names[i], error |-> why]

\* C33: convert_batch called with more than max_files paths raises ValueError
\* before any file is validated or converted, and no file is created or
\* removed; called with max_files paths or fewer it does not raise, and a
\* file the validator refuses or whose conversion raises is an entry of
\* results['failed'], every path being counted once.
ConvertBatchGuards ==
  /\ (Len(file_paths) > max_files) =>
       /\ pc \in {"c_call", "c_raised"}
       /\ tasks = <<>>
       /\ verdict = {}
       /\ invoked = {}
       /\ disk = Range(file_paths)
       /\ created = {}
       /\ unlink_log = <<>>
  /\ (Len(file_paths) <= max_files) =>
       /\ pc # "c_raised"
       /\ (pc = "c_returned") =>
            /\ results.total_processed = Len(file_paths)
            /\ Len(results.successful) + Len(results.failed) = Len(file_paths)
            /\ results.success_count = Len(results.successful)
            /\ results.error_count = Len(results.failed)
            /\ \A v \in verdict :
                 v[2] # "valid" =>
                   FailedEntry(v[1], v[2]) \in Range(results.failed)
            /\ \A i \in invoked :
                 \/ \E k \in 1..Len(results.successful) :
                      /\ results.successful[k].file = original_names[i]
                      /\ results.successful[k].tgs_path \in disk
                 \/ FailedEntry(i, "converter error") \in Range(results.failed)

\* convert_batch returned for two files: the conversion of one raised, the
\* other was converted.
ConvertBatchWitness ==
  /\ pc = "c_returned"
  /\ Len(file_paths) = 2
  /\ results.success_count = 1
  /\ \E i \in invoked :
       FailedEntry(i, "converter error") \in Range(results.failed)

\* ---------------------------------------------------- Database (database.py)

\* A person the table users has no row for.
NoRow == [row |-> FALSE, is_banned |-> FALSE, is_admin |-> FALSE]

\* init_owner_admin (enhanced_bot.py, lines 47-55): the owner has a row and
\* is an admin.
DbInit ==
  users = [p \in People |->
             IF p = owner_id
             THEN [row |-> TRUE, is_banned |-> FALSE, is_admin |-> TRUE]
             ELSE NoRow]

\* Every method opens its own connection; up is FALSE when that, or the
\* statement, raises: the method logs the error and returns False (or None).

\* add_user (lines 76-93): the row is inserted, or its names are refreshed.
AddUser(db, p, up) ==
  IF up /\ ~db[p].row THEN [db EXCEPT ![p].row = TRUE] ELSE db

\* is_user_banned (lines 125-138)
IsUserBanned(db, p, up) == up /\ db[p].row /\ db[p].is_banned

\* is_admin (lines 140-153)
IsAdmin(db, p, up) == up /\ db[p].row /\ db[p].is_admin

\* ban_user (lines 95-108): UPDATE ... WHERE user_id = p touches the row, if any.
BanUser(db, p, up) ==
  IF up /\ db[p].row THEN [db EXCEPT ![p].is_banned = TRUE] ELSE db

\* unban_user (lines 110-123)
UnbanUser(db, p, up) ==
  IF up /\ db[p].row THEN [db EXCEPT ![p].is_banned = FALSE] ELSE db

\* set_admin (lines 155-168)
SetAdmin(db, p, flag, up) ==
  IF up /\ db[p].row THEN [db EXCEPT ![p].is_admin = flag] ELSE db

\* ------------------------------------------------------------ handle_command

\* len(command_parts) < 2: the command came without a user id
NoArg == 0

Commands == {"/start", "/makeadmin", "/removeadmin", "/ban", "/unban"}

\* handle_makeadmin (lines 191-205)
HandleMakeadmin(db, target, up) ==
  IF target = NoArg THEN db ELSE SetAdmin(db, target, TRUE, up)

SparesNobody(target) == FALSE

\* if target_user_id == self.config.owner_id: return  (lines 215-217, 342-344)
SparesOwner(target) == target = owner_id

\* handle_removeadmin (lines 207-225)
HandleRemoveadmin(db, target, up) ==
  IF target = NoArg \/ SparesOwner(target)
  THEN db
  ELSE SetAdmin(db, target, FALSE, up)

\* handle_ban (lines 337-356)
HandleBan(db, target, up) ==
  IF SparesOwner(target) THEN db ELSE BanUser(db, target, up)

\* handle_unban (lines 358-373)
HandleUnban(db, target, up) == UnbanUser(db, target, up)

AnyoneIsOwner(p) == TRUE

\* user_id == self.config.owner_id  (lines 169, 171)
IsOwner(p) == p = owner_id

\* handle_command (lines 155-189) up to the send_message every branch ends
\* in: the table as the command leaves it.  upRead and upWrite say whether
\* is_admin and the statement of the command reach the database.
HandleCommand(db, p, c, target, upRead, upWrite) ==
  IF c = "/start" THEN db
  ELSE IF c = "/makeadmin" /\ IsOwner(p)
  THEN HandleMakeadmin(db, target, upWrite)
  ELSE IF c = "/removeadmin" /\ IsOwner(p)
  THEN HandleRemoveadmin(db, target, upWrite)
  ELSE IF IsAdmin(db, p, upRead)
  THEN IF c = "/ban" /\ target # NoArg THEN HandleBan(db, target, upWrite)
       ELSE IF c = "/unban" /\ target # NoArg
       THEN HandleUnban(db, target, upWrite)
       ELSE db
  ELSE db

\* ------------------------------------------------------------- handle_update

\* document['file_size'] of the documents that are sent
Sizes == {max_file_size, max_file_size + 1}

\* The updates: an SVG document of some size, or a command with its argument.
Documents ==
  {[kind |-> "document", file_size |-> sz, command |-> "", target |-> NoArg] :
     sz \in Sizes}

CommandsOn(cs, targets) ==
  {[kind |-> "command", file_size |-> 0, command |-> c, target |-> t] :
     c \in cs, t \in targets}

\* if document['file_size'] > self.config.max_file_size  (line 505)
TooLarge(m) == m.file_size > max_file_size

\* The handler of an update of p awaits the send_message it ends with.
Answering(p, what, c, t) ==
  [pc |-> what, u |-> p, n |-> 0, cmd |-> c, target |-> t]

\* An update of p reaches handle_update (lines 115-153), which runs to its
\* first await: the sender is recorded and, when banned, told so; a command
\* goes to handle_command and a document to handle_document (lines 498-525),
\* which turns a large one away and hands an SVG file to
\* handle_multiple_svg_files.
HandleUpdate(p, m) ==
  /\ handler.pc = "idle"
  /\ \E upAdd, upBan \in BOOLEAN :
       LET seen == AddUser(users, p, upAdd) IN
       IF IsUserBanned(seen, p, upBan)
       THEN /\ users' = seen
            /\ handler' = Answering(p, "ban_notice", "", NoArg)
            /\ UNCHANGED <<user_files, user_timers, user_waiting_message,
                           sleeping, procs, arrivals, age, chainStart,
                           chainRejected, lastBatch, settled, rejected,
                           handed, cancelled, noteVars>>
       ELSE IF m.kind = "command"
       THEN /\ \E upRead, upWrite \in BOOLEAN :
                 users' = HandleCommand(seen, p, m.command, m.target,
                                        upRead, upWrite)
            /\ handler' = Answering(p, "reply", m.command, m.target)
            /\ UNCHANGED <<user_files, user_timers, user_waiting_message,
                           sleeping, procs, arrivals, age, chainStart,
                           chainRejected, lastBatch, settled, rejected,
                           handed, cancelled, noteVars>>
       ELSE IF TooLarge(m)
       THEN /\ users' = seen
            /\ handler' = Answering(p, "size_notice", "", NoArg)
            /\ UNCHANGED <<user_files, user_timers, user_waiting_message,
                           sleeping, procs, arrivals, age, chainStart,
                           chainRejected, lastBatch, settled, rejected,
                           handed, cancelled, noteVars>>
       ELSE /\ users' = seen
            /\ handed < MaxUpdates
            /\ Arrive(p)
            /\ UNCHANGED noteVars

\* The send_message that ends the handler (the ban notice of line 136, the
\* "File too large" notice of line 506, the answer to a command) returned or
\* raised; handle_update logs what was raised (lines 152-153), a record that
\* names no key, since the update came near no buffer.
AnswerReturn ==
  /\ handler.pc \in {"ban_notice", "size_notice", "reply"}
  /\ handler' = Idle
  /\ \E r \in {"returned", "raised"} :
       error_log' = IF r = "raised"
                    THEN error_log \cup {HandlingError(0, 0)}
                    ELSE error_log
  /\ UNCHANGED <<fired, posted, users>>
  /\ UNCHANGED <<user_files, user_timers, user_waiting_message, sleeping,
                 procs, arrivals, age, chainStart, chainRejected, lastBatch,
                 settled, rejected, handed, cancelled>>

\* ------------------------------------------------------ admission properties

\* This step hands a document of u to a handler that turns it away.
Rejects(u) ==
  /\ handler.pc = "idle"
  /\ handler'.pc \in {"reject_notice", "size_notice"}
  /\ handler'.u = u

\* This step ends the handler that turned a document of u away.
RejectionEnds(u) ==
  /\ handler.pc \in {"reject_notice", "size_notice"}
  /\ handler.u = u
  /\ handler'.pc = "idle"

\* This step hands over a document of u that finds Capacity buffered items.
FindsBufferFull(u) ==
  /\ Len(user_files[u]) >= Capacity
  /\ handler.pc = "idle"
  /\ \/ arrivals'[u] # arrivals[u]
     \/ handler'.pc = "size_notice" /\ handler'.u = u

\* The buffer of u, its registered timer, its sleeping timer tasks (each with
\* the time it has left to sleep) and its batches in progress stay as they
\* are.
KeyUntouched(u) ==
  /\ user_files'[u] = user_files[u]
  /\ user_timers'[u] = user_timers[u]
  /\ Pending(u)' = Pending(u)
  /\ BatchesOf(u)' = BatchesOf(u)

\* C31: a rejected submission (the buffer of the key holds Capacity items, or
\* the document is larger than max_file_size) leaves the buffer and the
\* pending timer of the key as they are, from the hand-over to the return of
\* the handler: the timer is not restarted, it can fire as soon as it is due,
\* also while the notice of the rejection is awaited, and the batch it fires
\* is the whole buffer.
RejectionIsInert ==
  [][\A u \in Users :
       /\ (Rejects(u) \/ RejectionEnds(u) \/ FindsBufferFull(u))
            => KeyUntouched(u)
       /\ FindsBufferFull(u) => Rejects(u)
       /\ \A t \in Pending(u) :
            (TimerDue(t) /\ handler.pc \in {"reject_notice", "size_notice"})
              => ENABLED (TimerFire(t) /\ UNCHANGED <<dbVars, convVars, archVars>>)
       /\ (fired'[u] # fired[u]) => fired'[u] = Append(fired[u], user_files[u])
    ]_vars

\* A document that is too large is being turned away after a 16th document
\* was: the buffer still holds the Capacity items, and its timer has slept
\* since before the 16th document came.
RejectionWitness ==
  /\ handler.pc = "size_notice"
  /\ Len(user_files[handler.u]) = Capacity
  /\ rejected[handler.u] # {}
  /\ \E t \in Pending(handler.u) :
       /\ t.id = user_timers[handler.u]
       /\ t.rem + age[handler.u] < Quiescence

\* This step hands an update of p to handle_update.
Handles(p) ==
  /\ handler.pc = "idle"
  /\ \/ arrivals'[p] # arrivals[p]
     \/ handler'.pc \in {"ban_notice", "size_notice", "reply"} /\ handler'.u = p

\* C32: an update of a user who is banned when it is handled gets the ban
\* notice and nothing else: no command runs, no document is handed to
\* handle_multiple_svg_files, and no buffer or timer changes.
BannedIsShutOut ==
  [][\A p \in Users :
       (users[p].is_banned /\ Handles(p))
         => /\ handler'.pc = "ban_notice"
            /\ arrivals'[p] = arrivals[p]
            /\ UNCHANGED <<user_files, user_timers, sleeping, procs, users>>
    ]_vars

\* This step handles a command c of p.
Issues(p, c) ==
  /\ handler.pc = "idle"
  /\ handler'.pc = "reply"
  /\ handler'.u = p
  /\ handler'.cmd = c

\* C35: owner protection.  Whatever commands people send, the owner is never
\* banned and keeps the admin flag, and the admin flag of a person changes
\* only in a step that handles a /makeadmin or a /removeadmin of the owner.
OwnerProtection ==
  /\ [](~users[owner_id].is_banned /\ users[owner_id].is_admin)
  /\ [][\A q \in People :
          (users'[q].is_admin # users[q].is_admin)
            => \/ Issues(owner_id, "/makeadmin")
               \/ Issues(owner_id, "/removeadmin")
      ]_vars

\* An admin who is not the owner, and who has banned somebody, has sent
\* /ban with the id of the owner and awaits the answer.
OwnerWitness ==
  /\ handler.pc = "reply"
  /\ handler.u # owner_id
  /\ handler.cmd = "/ban"
  /\ handler.target = owner_id
  /\ users[handler.u].is_admin
  /\ \E q \in People : users[q].is_banned

\* ------------------------------------------------------------ specification

\* The first poll has not come (k = 0), or user 1 has just sent a burst of k
\* documents (buffered, the timer just reset).
SchedStart(k) ==
    LET burst == k > 0 IN
    /\ user_files = [u \in Users |-> IF u = 1 THEN [i \in 1..k |-> i] ELSE <<>>]
    /\ user_timers = [u \in Users |-> IF u = 1 /\ burst THEN k ELSE NoTimer]
    /\ user_waiting_message =
         [u \in Users |-> IF u = 1 /\ burst THEN 1 ELSE NoEntry]
    /\ sleeping = IF burst
                  THEN {[u |-> 1, id |-> k, rem |-> Quiescence,
                         chat_id |-> ChatOf(1, k)]}
                  ELSE {}
    /\ fired = [u \in Users |-> <<>>]
    /\ posted = [u \in Users |-> IF u = 1 /\ burst THEN 1 ELSE NoneMsg]
    /\ error_log = {}
    /\ procs = {}
    /\ handler = Idle
    /\ arrivals = [u \in Users |-> IF u = 1 THEN k ELSE 0]
    /\ age = [u \in Users |-> IF u = 1 /\ burst THEN 0 ELSE Quiescence]
    /\ chainStart = [u \in Users |-> 1]
    /\ chainRejected = [u \in Users |-> FALSE]
    /\ lastBatch = [u \in Users |-> <<>>]
    /\ settled = [u \in Users |-> {}]
    /\ rejected = [u \in Users |-> {}]
    /\ handed = 0
    /\ cancelled = [u \in Users |-> {}]

SchedInit == \E k \in StartFill : SchedStart(k)

SchedIdle ==
  /\ user_files = [u \in Users |-> <<>>]
  /\ user_timers = [u \in Users |-> NoTimer]
  /\ user_waiting_message = [u \in Users |-> NoEntry]
  /\ sleeping = {}
  /\ fired = [u \in Users |-> <<>>]
  /\ posted = [u \in Users |-> NoneMsg]
  /\ error_log = {}
  /\ procs = {}
  /\ handler = Idle
  /\ arrivals = [u \in Users |-> 0]
  /\ age = [u \in Users |-> Quiescence]
  /\ chainStart = [u \in Users |-> 1]
  /\ chainRejected = [u \in Users |-> FALSE]
  /\ lastBatch = [u \in Users |-> <<>>]
  /\ settled = [u \in Users |-> {}]
  /\ rejected = [u \in Users |-> {}]
  /\ handed = 0
  /\ cancelled = [u \in Users |-> {}]

Init == SchedInit /\ DbInit /\ ConvIdle /\ ArchIdle

Next ==
  \/ \E u \in Users : Arrive(u) /\ UNCHANGED <<noteVars, dbVars, convVars, archVars>>
  \/ NoticeReturn /\ UNCHANGED <<dbVars, convVars, archVars>>
  \/ NoticeRaise /\ UNCHANGED <<dbVars, convVars, archVars>>
  \/ RejectReturn /\ UNCHANGED <<dbVars, convVars, archVars>>
  \/ \E t \in sleeping : TimerFire(t) /\ UNCHANGED <<dbVars, convVars, archVars>>
  \/ \E p \in procs : ProcFinish(p) /\ UNCHANGED <<noteVars, dbVars, convVars, archVars>>
  \/ Tick /\ UNCHANGED <<noteVars, dbVars, convVars, archVars>>

\* The batching of the documents that users send one by one.
Spec == Init /\ [][Next]_vars

ConvInit ==
  /\ SchedIdle
  /\ DbInit
  /\ ArchIdle
  /\ \/ \E n \in 1..MaxBatch, msg \in {NoneMsg, 1} : BatchInit(n, msg)
     \/ \E m \in ZipSizes : ZipInit(m)

ConvNext ==
  \/ DownloadReturn /\ UNCHANGED <<schedVars, noteVars, dbVars, archVars>>
  \/ ConvertReturn /\ UNCHANGED <<schedVars, noteVars, dbVars, archVars, histVars>>
  \/ SendReturn /\ UNCHANGED <<schedVars, noteVars, dbVars, archVars, histVars>>
  \/ EditReturn /\ UNCHANGED <<schedVars, noteVars, dbVars, archVars, histVars>>
  \/ ProgressReturn /\ UNCHANGED <<schedVars, noteVars, dbVars, archVars, histVars>>
  \/ ZipDownloadReturn /\ UNCHANGED <<schedVars, noteVars, dbVars, archVars, histVars>>
  \/ NotifyReturn /\ UNCHANGED <<schedVars, noteVars, dbVars, archVars, histVars>>
  \/ \E i \in 1..Len(tasks) : TaskStart(i) /\ UNCHANGED <<schedVars, noteVars, dbVars, archVars>>
  \/ \E i \in 1..Len(tasks) : TaskConvertReturn(i)
       /\ UNCHANGED <<schedVars, noteVars, dbVars, archVars, histVars>>
  \/ GatherReturn /\ UNCHANGED <<schedVars, noteVars, dbVars, archVars, histVars>>
  \/ ZipEditReturn /\ UNCHANGED <<schedVars, noteVars, dbVars, archVars, histVars>>
  \/ ZipSendReturn /\ UNCHANGED <<schedVars, noteVars, dbVars, archVars, histVars>>
  \/ SummaryReturn /\ UNCHANGED <<schedVars, noteVars, dbVars, archVars, histVars>>
  \/ FailureNoticeReturn /\ UNCHANGED <<schedVars, noteVars, dbVars, archVars, histVars>>

StopNext ==
  \/ Next
  \/ Shutdown /\ UNCHANGED <<dbVars, convVars, archVars>>

\* The batching, in a process that can be stopped at any moment.
StopSpec == Init /\ [][StopNext]_vars

\* The bot is idle, or user 1 has just filled the buffer.
UpdateInit ==
  /\ \E k \in {0, Capacity} : SchedStart(k)
  /\ DbInit
  /\ ConvIdle
  /\ ArchIdle

UpdateNext ==
  \/ \E p \in Users,
        m \in Documents \cup CommandsOn({"/ban", "/unban"}, Users \ {owner_id}) :
       HandleUpdate(p, m) /\ UNCHANGED <<convVars, archVars>>
  \/ AnswerReturn /\ UNCHANGED <<convVars, archVars>>
  \/ NoticeReturn /\ UNCHANGED <<dbVars, convVars, archVars>>
  \/ NoticeRaise /\ UNCHANGED <<dbVars, convVars, archVars>>
  \/ RejectReturn /\ UNCHANGED <<dbVars, convVars, archVars>>
  \/ \E t \in sleeping : TimerFire(t) /\ UNCHANGED <<dbVars, convVars, archVars>>
  \/ \E q \in procs : ProcFinish(q)
       /\ UNCHANGED <<noteVars, dbVars, convVars, archVars>>
  \/ Tick /\ UNCHANGED <<noteVars, dbVars, convVars, archVars>>

\* The batching behind handle_update: documents of any size, and the bans
\* of the other submitter that are set and lifted.
UpdateSpec == UpdateInit /\ [][UpdateNext]_vars

AdminInit == SchedIdle /\ DbInit /\ ConvIdle /\ ArchIdle

AdminNext ==
  \/ \E p \in People, m \in CommandsOn(Commands, People \cup {NoArg}) :
       HandleUpdate(p, m) /\ UNCHANGED <<convVars, archVars>>
  \/ AnswerReturn /\ UNCHANGED <<convVars, archVars>>

\* The commands that people send, in any order.
AdminSpec == AdminInit /\ [][AdminNext]_vars

\* The processing of one fired batch, or of one ZIP archive.
ConvSpec == ConvInit /\ [][ConvNext]_vars

CallStart ==
  /\ SchedIdle
  /\ DbInit
  /\ ArchIdle
  /\ \E n \in CallSizes : CallInit(n)

CallNext ==
  \/ ConvertBatchCall /\ UNCHANGED <<schedVars, noteVars, dbVars, archVars, histVars>>
  \/ \E i \in 1..Len(tasks) : TaskStart(i)
       /\ UNCHANGED <<schedVars, noteVars, dbVars, archVars>>
  \/ \E i \in 1..Len(tasks) : TaskConvertReturn(i)
       /\ UNCHANGED <<schedVars, noteVars, dbVars, archVars, histVars>>
  \/ ConvertBatchReturn /\ UNCHANGED <<schedVars, noteVars, dbVars, archVars, histVars>>

\* One call of convert_batch, on lists drawn from bounded sets.
CallSpec == CallStart /\ [][CallNext]_vars

\* The sequences over S of length up to n.
SeqsUpTo(S, n) == UNION {[1..k -> S] : k \in 0..n}

ArchInit ==
  /\ SchedIdle
  /\ DbInit
  /\ ConvIdle
  /\ \E names \in SeqsUpTo(Names, MaxPacked),
        failed \in SeqsUpTo([file : FailedNames, error : Reasons], MaxFailed) :
       \E present \in SUBSET {TgsFile(i) : i \in 1..Len(names)} :
         ArchStart([i \in 1..Len(names) |-> Packed(names[i], i)],
                   failed, present)

ArchNext ==
  \/ ArchWrite /\ UNCHANGED <<schedVars, noteVars, dbVars, convVars>>
  \/ ArchReport /\ UNCHANGED <<schedVars, noteVars, dbVars, convVars>>
  \/ ArchClose /\ UNCHANGED <<schedVars, noteVars, dbVars, convVars>>

\* One call of create_result_archive.
ArchiveSpec == ArchInit /\ [][ArchNext]_vars

====
